---- MODULE Spec2Model ----
(***************************************************************************)
(* Model of shared-stream (src/src/lib.rs): a caching state machine        *)
(* (InnerState) shared by cloneable cursors (Shared / Ashared handles).    *)
(* One call of poll_next on a single-thread handle is one atomic step.     *)
(***************************************************************************)
EXTENDS Integers, Sequences, FiniteSets, TLC

\* ---------------------------------------------------------------- bounds
MaxLen == 3          \* longest upstream sequence explored
MaxHandles == 2      \* most handles (original + clones) alive at once
MaxReady == 1        \* most consecutive Ready answers upstream gives in one call
MaxThreads == 2      \* most threads, each owning one cross-thread handle

\* the item values of the tests' producer, repeated in this order
Items == <<"a", "b", "c">>
HintKinds == {"exact", "unknown"}

\* the three-item producer of the tests: ["a", "b", "c"]
ScenarioLen == 3

\* the three handles of the cross-thread example, one thread each
ScenarioThreads == 3

ThreadIds == 1..(IF MaxThreads > ScenarioThreads THEN MaxThreads ELSE ScenarioThreads)

VARIABLES
    tag,        \* InnerState discriminant: "Running" or "Finished"
    values,     \* InnerState::{Running,Finished}.values, the cache
    src,        \* the items the wrapped producer will yield, in order
    hintKind,   \* whether the producer's size_hint has a known upper bound
    upPos,      \* how many items the producer has yielded so far
    upDone,     \* the producer has answered Ready(None)
    seen,       \* side-effect log of the instrumented producer (inspect)
    handles,    \* the live handles
    idx,        \* Shared.idx of every live handle
    start,      \* history: the cursor a handle was created with
    got,        \* history: the items a handle received, in order
    ended,      \* history: the handle has received Ready(None)
    maxReq,     \* history: largest index passed to get_item, -1 if none
    last,       \* history: the last operation and what it returned
    drops,      \* how many times the wrapped producer has been dropped
    lock,       \* the RwLock of the cross-thread container: writer, poisoned
    lastA,      \* history: what the cross-thread variant returned for last
    panicked,   \* history: the producer has panicked inside a next_item call
    pc,         \* where each thread is inside Ashared::poll_next
    waited,     \* history: the thread's call began with a miss behind a writer
    upReady,    \* the producer has an answer ready for its next poll
    upWaker,    \* the context the producer will wake: that of its latest poll
    task        \* the driver's view of each handle's task

vars == <<tag, values, src, hintKind, upPos, upDone, seen, handles, idx,
          start, got, ended, maxReq, last, drops,
          lock, lastA, panicked, pc, waited, upReady, upWaker, task>>

lockVars == <<lock, lastA, panicked>>
threadVars == <<pc, waited>>
wakeVars == <<upReady, upWaker, task>>

\* ------------------------------------------------------------ Option<T>
None == <<>>
Some(v) == <<v>>
IsSome(o) == Len(o) = 1
Unwrap(o) == o[1]
OptionMap(o, d) == IF IsSome(o) THEN Some(Unwrap(o) + d) ELSE None

\* the producer of the tests cut or continued to n items: a, b, c, a, ...
Source(n) == [i \in 1..n |-> Items[((i - 1) % Len(Items)) + 1]]

\* ---------------------------------------------------- InnerState (cache)
\* mutants of values.get: the newest entry instead of the idx-th; off by one
ValuesGetLast(vals, i) == IF i < Len(vals) THEN Some(vals[Len(vals)]) ELSE None
ValuesGetOffByOne(vals, i) == IF i + 1 < Len(vals) THEN Some(vals[i + 1]) ELSE None

\* values.get(idx).cloned()
ValuesGet(vals, i) == IF i < Len(vals) THEN Some(vals[i + 1]) ELSE None

\* mutant of values.push: the new item goes to the front
PushFront(vals, v) == <<v>> \o vals

\* values.push(v)
Push(vals, v) == Append(vals, v)

\* mutant of mem::take: the accumulated cache is lost
TakeValuesEmpty(vals) == <<>>

\* mem::take(values): the accumulated cache, moved out
TakeValues(vals) == vals

\* mutant of the Running -> Finished transition: the state stays Running
SetFinishedKeepRunning(st) == st

\* self.set(Self::Finished { values }): the producer is dropped
SetFinished(st) ==
    [st EXCEPT !.tag = "Finished", !.values = TakeValues(st.values), !.drops = @ + 1]

\* stream.poll_next(cx) answering Ready: the next item, logged by inspect,
\* or None once the source is used up
StreamPollReady(st) ==
    IF st.upPos < Len(src)
    THEN [st |-> [st EXCEPT !.upPos = @ + 1, !.seen = Append(@, src[st.upPos + 1])],
          item |-> Some(src[st.upPos + 1])]
    ELSE [st |-> [st EXCEPT !.upDone = TRUE], item |-> None]

\* InnerState::get_item(idx, cx).  r is the number of polls upstream answers
\* Ready before it answers Pending.  The result carries the new state, the
\* Poll<Option<Item>> value and the number of upstream polls made.
RECURSIVE GetItemLoop(_, _, _, _)
GetItemLoop(st, i, r, polls) ==
    IF st.tag = "Running"
    THEN LET value == ValuesGet(st.values, i) IN
         IF ~IsSome(value)
         THEN IF r = 0
              THEN [st |-> st, kind |-> "Pending", val |-> None, polls |-> polls + 1]
              ELSE LET p == StreamPollReady(st) IN
                   IF IsSome(p.item)
                   THEN GetItemLoop([p.st EXCEPT !.values = Push(@, Unwrap(p.item))],
                                    i, r - 1, polls + 1)
                   ELSE [st |-> SetFinished(p.st), kind |-> "Ready",
                         val |-> value, polls |-> polls + 1]
         ELSE [st |-> st, kind |-> "Ready", val |-> value, polls |-> polls]
    ELSE [st |-> st, kind |-> "Ready", val |-> ValuesGet(st.values, i), polls |-> polls]

GetItem(st, i, r) == GetItemLoop(st, i, r, 0)

\* ------------------------------------------------------ Shared (handle)
Inner == [tag |-> tag, values |-> values, upPos |-> upPos, upDone |-> upDone,
          seen |-> seen, drops |-> drops]

\* mutant of clone: the new cursor restarts at 0
CloneIdxZero(h) == 0

\* Clone: idx: self.idx
CloneIdx(h) == idx[h]

\* mutants of the cursor update: advance by two; advance on every Ready
PollNextIdxSkip(i, kind, val) == IF kind = "Ready" /\ IsSome(val) THEN i + 2 ELSE i
PollNextIdxAlways(i, kind, val) == IF kind = "Ready" THEN i + 1 ELSE i

\* poll_next: if let Poll::Ready(Some(_)) = result { idx += 1 }
PollNextIdx(i, kind, val) == IF kind = "Ready" /\ IsSome(val) THEN i + 1 ELSE i

\* the wrapped producer's size_hint()
StreamSizeHint ==
    IF hintKind = "exact"
    THEN <<Len(src) - upPos, Some(Len(src) - upPos)>>
    ELSE <<0, None>>

\* mutant of upstream_cached: the cursor is not subtracted
UpstreamCachedAll(vals, i) == Len(vals)

\* let upstream_cached = values.len() - self.idx
UpstreamCached(vals, i) == Len(vals) - i

\* size_hint(&self)
SizeHint(h) ==
    IF tag = "Running"
    THEN LET upstream_cached == UpstreamCached(values, idx[h])
             upstream == StreamSizeHint
         IN  <<upstream[1] + upstream_cached, OptionMap(upstream[2], upstream_cached)>>
    ELSE <<UpstreamCached(values, idx[h]), Some(UpstreamCached(values, idx[h]))>>

\* mutants of is_terminated: strict comparison; state tag ignored
IsTerminatedStrict(h) ==
    IF tag = "Running" THEN FALSE ELSE Len(values) < idx[h]
IsTerminatedNoTag(h) == Len(values) <= idx[h]

\* is_terminated(&self)
IsTerminated(h) ==
    IF tag = "Running" THEN FALSE ELSE Len(values) <= idx[h]

\* -------------------------------------------------------------- actions
\* Share::shared / Shared::new: Running, empty cache, idx 0
InitShared ==
    /\ src \in {Source(n) : n \in 0..MaxLen}
    /\ hintKind \in HintKinds
    /\ tag = "Running"
    /\ values = <<>>
    /\ upPos = 0
    /\ upDone = FALSE
    /\ seen = <<>>
    /\ handles = {1}
    /\ idx = (1 :> 0)
    /\ start = (1 :> 0)
    /\ got = (1 :> <<>>)
    /\ ended = (1 :> FALSE)
    /\ maxReq = -1
    /\ drops = 0
    /\ last = [op |-> "wrap", h |-> 1, new |-> 1, kind |-> "-", val |-> None, polls |-> 0]

\* RwLock::new: no writer, not poisoned
FreeLock == [writer |-> 0, poisoned |-> FALSE]

InitLock ==
    /\ lock = FreeLock
    /\ lastA = [kind |-> "-", val |-> None, same |-> TRUE]
    /\ panicked = FALSE

\* no thread is inside a call
InitThread ==
    /\ pc = [t \in ThreadIds |-> "idle"]
    /\ waited = [t \in ThreadIds |-> FALSE]

\* no context is registered with the producer, every task may be polled
InitWake ==
    /\ upReady = TRUE
    /\ upWaker = 0
    /\ task = [h \in 1..MaxHandles |-> "runnable"]

Init == InitShared /\ InitLock /\ InitThread /\ InitWake

\* Shared::clone
Clone(h) ==
    /\ h \in handles
    /\ Cardinality(handles) < MaxHandles
    /\ LET n == CHOOSE k \in 1..MaxHandles : k \notin handles IN
       /\ handles' = handles \cup {n}
       /\ idx' = (n :> CloneIdx(h)) @@ idx
       /\ start' = (n :> CloneIdx(h)) @@ start
       /\ got' = (n :> <<>>) @@ got
       /\ ended' = (n :> FALSE) @@ ended
       /\ last' = [op |-> "clone", h |-> h, new |-> n, kind |-> "-", val |-> None, polls |-> 0]
    /\ UNCHANGED <<tag, values, src, hintKind, upPos, upDone, seen, maxReq, drops>>
    /\ UNCHANGED <<lockVars, threadVars, wakeVars>>

\* Shared::poll_next
NextItem(h) ==
    /\ h \in handles
    /\ \E r \in 0..MaxReady :
          LET res == GetItem(Inner, idx[h], r) IN
          /\ tag' = res.st.tag
          /\ values' = res.st.values
          /\ upPos' = res.st.upPos
          /\ upDone' = res.st.upDone
          /\ seen' = res.st.seen
          /\ drops' = res.st.drops
          /\ idx' = [idx EXCEPT ![h] = PollNextIdx(@, res.kind, res.val)]
          /\ got' = [got EXCEPT ![h] = IF res.kind = "Ready" /\ IsSome(res.val)
                                       THEN Append(@, Unwrap(res.val)) ELSE @]
          /\ ended' = [ended EXCEPT ![h] = @ \/ (res.kind = "Ready" /\ ~IsSome(res.val))]
          /\ maxReq' = IF idx[h] > maxReq THEN idx[h] ELSE maxReq
          /\ last' = [op |-> "next_item", h |-> h, new |-> h, kind |-> res.kind,
                      val |-> res.val, polls |-> res.polls]
    /\ UNCHANGED <<src, hintKind, handles, start>>
    /\ UNCHANGED <<lockVars, threadVars, wakeVars>>

Next ==
    \/ \E h \in 1..MaxHandles : Clone(h)
    \/ \E h \in 1..MaxHandles : NextItem(h)

Spec == Init /\ [][Next]_vars

\* ------------------------------------------------------------ properties
IsItem(l) == l.kind = "Ready" /\ IsSome(l.val)
IsEnd(l) == l.kind = "Ready" /\ ~IsSome(l.val)
IsSuspended(l) == l.kind = "Pending"

\* the indices some handle has already read
AlreadyRead == {i \in 0..MaxLen : \E g \in handles : start[g] <= i /\ i < idx[g]}

\* the number of items a handle has consumed, counted from the start of the
\* sequence (a clone inherits the position of the handle it was cloned from)
Consumed(h) == start[h] + Len(got[h])

\* C1: every upstream item is produced exactly once: the producer's emission
\* log always equals the shared cache (and is a prefix of the source), and a
\* next_item call at an index some handle has already read adds no log entry.
C1_ProducedOnce ==
    /\ [](seen = values /\ Len(seen) <= Len(src) /\ seen = SubSeq(src, 1, Len(seen)))
    /\ [][\A h \in handles :
            (last'.op = "next_item" /\ last'.h = h /\ idx[h] \in AlreadyRead)
                => seen' = seen]_vars

C1_Witness ==
    \E h, g \in handles :
        /\ h # g
        /\ Len(src) = ScenarioLen
        /\ got[h] = src /\ got[g] = src
        /\ seen = src

\* C2: two handles of one container received identical values at every index
\* both have read.
C2_SameValues ==
    \A h1, h2 \in handles : \A i \in 0..MaxLen :
        (/\ start[h1] <= i /\ i < start[h1] + Len(got[h1])
         /\ start[h2] <= i /\ i < start[h2] + Len(got[h2]))
            => got[h1][i - start[h1] + 1] = got[h2][i - start[h2] + 1]

C2_Witness ==
    \E h1, h2 \in handles :
        /\ h1 # h2
        /\ start[h1] = 0 /\ start[h2] = 0
        /\ Len(got[h1]) >= 2 /\ Len(got[h2]) >= 1 /\ Len(got[h1]) > Len(got[h2])
        /\ src[1] # src[2]

\* C3: a handle created at cursor c receives upstream item c+j in its j-th
\* successful call: nothing is skipped, duplicated or reordered.
C3_InOrder ==
    \A h \in handles :
        /\ idx[h] = start[h] + Len(got[h])
        /\ start[h] + Len(got[h]) <= Len(src)
        /\ \A j \in 1..Len(got[h]) : got[h][j] = src[start[h] + j]

C3_Witness ==
    \E h1, h2 \in handles :
        /\ start[h1] # start[h2]
        /\ Len(got[h1]) >= 1 /\ Len(got[h2]) >= 2
        /\ idx[h1] # idx[h2]
        /\ src[2] # src[3]

\* C4: clone gives the new handle the source handle's current cursor and
\* leaves the cache state and every existing cursor unchanged; a next_item
\* call changes no cursor but the caller's.
C4_CloneCursor ==
    [][/\ last'.op = "clone" =>
            /\ last'.new \notin handles
            /\ handles' = handles \cup {last'.new}
            /\ idx'[last'.new] = idx[last'.h]
            /\ UNCHANGED <<tag, values, upPos, upDone, seen>>
            /\ \A g \in handles : idx'[g] = idx[g]
       /\ last'.op = "next_item" =>
            \A g \in handles \ {last'.h} : idx'[g] = idx[g]]_vars

C4_Witness ==
    /\ last.op = "clone"
    /\ idx[last.new] = idx[last.h]
    /\ last.new # last.h
    /\ idx[last.new] >= 2
    /\ start[last.new] = idx[last.new]
    /\ Len(values) = idx[last.new]

\* C5: a cursor grows by exactly 1 on a next_item call that returns an item,
\* stays put on Suspended or End, and never decreases.
C5_CursorStep ==
    [][\A h \in handles :
          /\ idx'[h] >= idx[h]
          /\ (last'.op = "next_item" /\ last'.h = h) =>
                /\ IsItem(last') => idx'[h] = idx[h] + 1
                /\ (IsSuspended(last') \/ IsEnd(last')) => idx'[h] = idx[h]]_vars

C5_Witness ==
    /\ last.op = "next_item"
    /\ IsEnd(last)
    /\ idx[last.h] = Len(src)
    /\ Len(got[last.h]) >= 2

\* C6: with N items cached and k <= N of them consumed by a handle, its
\* remaining_bounds are (N-k, N-k) when Finished and the upstream bounds
\* shifted by N-k when Running (upper unknown if upstream's is); a cache-hit
\* read by another clone does not change them.
BoundsOf(N, k) ==
    IF tag = "Finished"
    THEN <<N - k, Some(N - k)>>
    ELSE <<StreamSizeHint[1] + (N - k), OptionMap(StreamSizeHint[2], N - k)>>

C6_Bounds ==
    /\ [](\A h \in handles :
            /\ Consumed(h) <= Len(values)
            /\ SizeHint(h) = BoundsOf(Len(values), Consumed(h)))
    /\ [][\A h \in handles :
            (last'.op = "next_item" /\ last'.h # h /\ last'.polls = 0)
                => SizeHint(h)' = SizeHint(h)]_vars

C6_Witness ==
    \E h, g \in handles :
        /\ tag = "Running"
        /\ hintKind = "exact"
        /\ Consumed(h) = 1 /\ Len(values) = 2 /\ Len(src) = ScenarioLen
        /\ idx[g] # idx[h]
        /\ SizeHint(h) = <<2, Some(2)>>

\* C7: is_exhausted is false for every handle while Running; when Finished it
\* is true exactly for the handles whose cursor reached the final cache
\* length, so a handle that is behind reports false after another drained.
C7_Exhausted ==
    \A h \in handles :
        /\ tag = "Running" => ~IsTerminated(h)
        /\ tag = "Finished" =>
              /\ Len(values) = Len(src)
              /\ IsTerminated(h) <=> (Consumed(h) >= Len(values))
        /\ IsTerminated(h) => upDone

C7_Witness ==
    \E h, g \in handles :
        /\ tag = "Finished"
        /\ ended[g] /\ IsTerminated(g)
        /\ Consumed(h) < Len(values) /\ ~IsTerminated(h)

\* A fresh three-item producer read through its only handle.
SingleHandleScenario == Len(src) = ScenarioLen /\ handles = {1}

\* C8 as stated: the only handle of a fresh three-item producer reports
\* exhausted as soon as it has yielded the third item.
C8_AsStated ==
    (SingleHandleScenario /\ Len(got[1]) = ScenarioLen) => IsTerminated(1)

\* C8 amended: the only handle of a fresh three-item producer reports not
\* exhausted before the first read and after each of the three items; it
\* reports exhausted exactly once a further next_item call has returned End.
C8_ExhaustedAfterEnd ==
    SingleHandleScenario =>
        /\ Len(got[1]) <= ScenarioLen
        /\ IsTerminated(1) <=> ended[1]
        /\ ended[1] => Len(got[1]) = ScenarioLen

C8_Witness ==
    /\ SingleHandleScenario
    /\ Len(got[1]) = ScenarioLen
    /\ ~ended[1]
    /\ ~IsTerminated(1)
    /\ tag = "Running"

\* C9: after a next_item call on a handle has returned End, every later
\* next_item call on it returns End without polling upstream, and
\* is_exhausted stays true for it.
C9_EndIsStable ==
    /\ [](\A h \in handles : ended[h] => IsTerminated(h))
    /\ [][\A h \in handles :
            (ended[h] /\ last'.op = "next_item" /\ last'.h = h)
                => (IsEnd(last') /\ last'.polls = 0 /\ ended'[h])]_vars

C9_Witness ==
    /\ last.op = "next_item"
    /\ ended[last.h]
    /\ IsEnd(last)
    /\ last.polls = 0
    /\ Len(got[last.h]) >= 1

\* C10: upstream is driven only on demand: wrapping and cloning produce no
\* item, the cache never holds more than 1 + the largest index requested, and
\* after a single item was taken the log is exactly the first item.
C10_OnDemand ==
    /\ [](/\ Len(values) <= maxReq + 1
          /\ Len(seen) <= maxReq + 1
          /\ last.op = "wrap" => seen = <<>>
          /\ (maxReq = 0 /\ \E h \in handles : got[h] # <<>>) => seen = <<src[1]>>)
    /\ [][last'.op = "clone" => (seen' = seen /\ upPos' = upPos /\ values' = values)]_vars

C10_Witness ==
    /\ Len(src) = ScenarioLen
    /\ maxReq = 0
    /\ \E h \in handles : start[h] = 0 /\ h # 1 /\ got[h] = <<src[1]>>
    /\ idx[1] = 0
    /\ seen = <<src[1]>>

\* C14: the cache state only moves forward: while Running the cache changes
\* only by appending one item; Running -> Finished happens exactly when
\* upstream signals end and carries the cache over; Finished is terminal, its
\* cache is frozen, and upstream is never polled after it signalled end.
C14_ForwardOnly ==
    /\ [](drops <= 1 /\ (tag = "Finished" <=> upDone))
    /\ [][/\ (tag = "Running" /\ tag' = "Running") =>
               \/ values' = values
               \/ /\ Len(values') = Len(values) + 1
                  /\ SubSeq(values', 1, Len(values)) = values
          /\ (tag = "Running" /\ tag' = "Finished") =>
               (values' = values /\ ~upDone /\ upDone')
          /\ (~upDone /\ upDone') => (tag = "Running" /\ tag' = "Finished")
          /\ tag = "Finished" =>
               /\ tag' = "Finished" /\ values' = values
               /\ upPos' = upPos /\ seen' = seen /\ upDone'
               /\ last'.polls = 0]_vars

C14_Witness ==
    /\ tag = "Finished"
    /\ values = src /\ Len(src) = ScenarioLen
    /\ last.op = "next_item" /\ last.polls = 0 /\ IsItem(last)
    /\ \E h \in handles : ended[h]

\* C15: a single next_item call polls upstream at most once before it
\* returns, on every handle reachable through wrap, clone and next_item.
C15_OnePollPerCall ==
    /\ last.polls <= 1
    /\ (last.op = "next_item" /\ IsSuspended(last)) => last.polls = 1

C15_Witness ==
    /\ last.op = "next_item"
    /\ last.polls = 1
    /\ IsItem(last)
    /\ Cardinality(handles) = 2
    /\ start[last.h] >= 1

\* ----------------------------------------------------- dropping handles
\* mutant of the container's release: the producer goes with any handle
DropInnerAlways(hs, st) ==
    IF st.tag = "Running" THEN [st EXCEPT !.drops = @ + 1] ELSE st

\* Rc<RefCell<InnerState>>: the container is destroyed with the last handle,
\* and with it a producer that is still there (state Running); hs is the
\* set of handles that remain
DropInner(hs, st) ==
    IF hs = {} /\ st.tag = "Running" THEN [st EXCEPT !.drops = @ + 1] ELSE st

\* drop of a Shared handle
Drop(h) ==
    /\ h \in handles
    /\ handles' = handles \ {h}
    /\ idx' = [g \in handles \ {h} |-> idx[g]]
    /\ start' = [g \in handles \ {h} |-> start[g]]
    /\ got' = [g \in handles \ {h} |-> got[g]]
    /\ ended' = [g \in handles \ {h} |-> ended[g]]
    /\ drops' = DropInner(handles \ {h}, Inner).drops
    /\ last' = [op |-> "drop", h |-> h, new |-> h, kind |-> "-", val |-> None, polls |-> 0]
    /\ UNCHANGED <<tag, values, src, hintKind, upPos, upDone, seen, maxReq>>
    /\ UNCHANGED <<lockVars, threadVars, wakeVars>>

NextDrop ==
    \/ \E h \in 1..MaxHandles : Clone(h)
    \/ \E h \in 1..MaxHandles : NextItem(h)
    \/ \E h \in 1..MaxHandles : Drop(h)

\* size hints play no part in dropping: one kind of producer is enough
InitDrop == Init /\ hintKind = "exact"

SpecDrop == InitDrop /\ [][NextDrop]_vars

\* C20: dropping a handle while another remains leaves the cache, the state
\* tag, the producer and the other cursors untouched; the producer is
\* discarded exactly once, at the Running -> Finished transition or with the
\* last handle, whichever comes first.
C20_DropKeepsContainer ==
    /\ [](/\ drops <= 1
          /\ drops = 1 <=> (tag = "Finished" \/ handles = {}))
    /\ [][(last'.op = "drop" /\ handles' # {}) =>
             /\ UNCHANGED <<tag, values, upPos, upDone, seen, drops>>
             /\ \A g \in handles' : idx'[g] = idx[g]]_vars

C20_Witness ==
    /\ last.op = "drop"
    /\ handles # {}
    /\ tag = "Running"
    /\ drops = 0
    /\ Len(values) >= 1 /\ upPos < Len(src)
    /\ \E g \in handles : idx[g] < Len(values)

\* ------------------------------------- both variants, one call at a time
\* the call at index i would reach stream.poll_next
WouldPoll(st, i) == st.tag = "Running" /\ ~IsSome(ValuesGet(st.values, i))

\* get_item with a producer that may panic inside its poll (boom): the
\* unwinding leaves the state as it was before the poll
GetItemOrPanic(st, i, r, boom) ==
    IF boom /\ WouldPoll(st, i)
    THEN [st |-> st, kind |-> "Panic", val |-> None, polls |-> 1]
    ELSE GetItem(st, i, r)

\* inner.write().unwrap() / inner.read().unwrap(): Err when poisoned
WriteUnwrapFails(lk) == lk.poisoned
ReadUnwrapFails(lk) == lk.poisoned

\* mutant of the write lock: it is granted while another writer holds it
WriteAvailableAlways(lk) == TRUE

\* inner.write() returns only while no other guard is held
WriteAvailable(lk) == lk.writer = 0

\* inner.write(): the caller t becomes the writer
WriteAcquire(lk, t) == [lk EXCEPT !.writer = t]

\* mutants of the guard's drop: no poisoning; the lock is never released
GuardDropNoPoison(lk, panicking) == [lk EXCEPT !.writer = 0]
GuardDropLeak(lk, panicking) == [lk EXCEPT !.poisoned = @ \/ panicking]

\* drop of the RwLockWriteGuard at the end of the statement, or while
\* unwinding, which poisons the lock
GuardDrop(lk, panicking) == [lk EXCEPT !.writer = 0, !.poisoned = @ \/ panicking]

\* Shared::poll_next as a function of the state: the RefCell borrow is free
\* between calls and is released by unwinding without leaving a mark
SharedPollNext(st, i, r, boom) ==
    LET res == GetItemOrPanic(st, i, r, boom) IN
    [st |-> res.st, kind |-> res.kind, val |-> res.val, polls |-> res.polls,
     idx |-> PollNextIdx(i, res.kind, res.val)]

\* Ashared::poll_next as a function of the state, called by t with no other
\* call in progress
AsharedPollNext(lk, st, i, r, boom, t) ==
    IF ~WriteAvailable(lk)
    THEN [lock |-> lk, st |-> st, kind |-> "Blocked", val |-> None, polls |-> 0, idx |-> i]
    ELSE IF WriteUnwrapFails(lk)
    THEN [lock |-> lk, st |-> st, kind |-> "Panic", val |-> None, polls |-> 0, idx |-> i]
    ELSE LET res == GetItemOrPanic(st, i, r, boom) IN
         [lock |-> GuardDrop(WriteAcquire(lk, t), res.kind = "Panic"),
          st |-> res.st, kind |-> res.kind, val |-> res.val, polls |-> res.polls,
          idx |-> PollNextIdx(i, res.kind, res.val)]

\* size_hint and is_terminated of the two variants, with the way they end
SharedSizeHint(h) == [kind |-> "Ok", v |-> SizeHint(h)]
SharedIsTerminated(h) == [kind |-> "Ok", v |-> IsTerminated(h)]
AsharedSizeHint(lk, h) ==
    IF ReadUnwrapFails(lk) THEN [kind |-> "Panic", v |-> <<0, None>>]
    ELSE [kind |-> "Ok", v |-> SizeHint(h)]
AsharedIsTerminated(lk, h) ==
    IF ReadUnwrapFails(lk) THEN [kind |-> "Panic", v |-> FALSE]
    ELSE [kind |-> "Ok", v |-> IsTerminated(h)]

\* the same next_item call made on a handle of either variant; the state
\* follows the single-thread variant, lastA tells what the cross-thread
\* variant returned and whether it left the same cache, tag and cursor
BothNextItem(h) ==
    /\ h \in handles
    /\ \E r \in 0..MaxReady, boom \in BOOLEAN :
          LET res == SharedPollNext(Inner, idx[h], r, boom)
              ares == AsharedPollNext(lock, Inner, idx[h], r, boom, h) IN
          /\ tag' = res.st.tag
          /\ values' = res.st.values
          /\ upPos' = res.st.upPos
          /\ upDone' = res.st.upDone
          /\ seen' = res.st.seen
          /\ drops' = res.st.drops
          /\ idx' = [idx EXCEPT ![h] = res.idx]
          /\ got' = [got EXCEPT ![h] = IF res.kind = "Ready" /\ IsSome(res.val)
                                       THEN Append(@, Unwrap(res.val)) ELSE @]
          /\ ended' = [ended EXCEPT ![h] = @ \/ (res.kind = "Ready" /\ ~IsSome(res.val))]
          /\ maxReq' = IF idx[h] > maxReq THEN idx[h] ELSE maxReq
          /\ last' = [op |-> "next_item", h |-> h, new |-> h, kind |-> res.kind,
                      val |-> res.val, polls |-> res.polls]
          /\ lock' = ares.lock
          /\ lastA' = [kind |-> ares.kind, val |-> ares.val,
                       same |-> (ares.st = res.st /\ ares.idx = res.idx)]
          /\ panicked' = (panicked \/ res.kind = "Panic")
    /\ UNCHANGED <<src, hintKind, handles, start>>
    /\ UNCHANGED <<threadVars, wakeVars>>

NextBoth ==
    \/ \E h \in 1..MaxHandles : Clone(h)
    \/ \E h \in 1..MaxHandles : BothNextItem(h)

SpecBoth == Init /\ [][NextBoth]_vars

\* C12 as stated: executed one call at a time against the same upstream
\* behaviour, both variants return the same results and leave the same
\* cache, state tag and cursors.
C12_AsStated ==
    /\ last.op = "next_item" =>
          (lastA.kind = last.kind /\ lastA.val = last.val /\ lastA.same)
    /\ \A h \in handles :
          /\ AsharedSizeHint(lock, h) = SharedSizeHint(h)
          /\ AsharedIsTerminated(lock, h) = SharedIsTerminated(h)

\* C12 amended: the two variants agree call by call as long as the producer
\* has not panicked inside a next_item call.
C12_SameUntilPanic ==
    /\ [](~panicked =>
            \A h \in handles :
                /\ AsharedSizeHint(lock, h) = SharedSizeHint(h)
                /\ AsharedIsTerminated(lock, h) = SharedIsTerminated(h))
    /\ [][(~panicked /\ last'.op = "next_item") =>
            (lastA'.kind = last'.kind /\ lastA'.val = last'.val /\ lastA'.same)]_vars

C12_Witness ==
    /\ ~panicked
    /\ last.op = "next_item" /\ IsItem(last) /\ last.polls = 0
    /\ lastA.kind = "Ready" /\ lastA.val = last.val /\ lastA.same
    /\ Cardinality(handles) = 2
    /\ Len(values) >= 2

\* every call a handle can make fails, on the single-thread variant
AllFailShared ==
    \A h \in handles :
        /\ \A r \in 0..MaxReady : SharedPollNext(Inner, idx[h], r, FALSE).kind = "Panic"
        /\ SharedSizeHint(h).kind = "Panic"
        /\ SharedIsTerminated(h).kind = "Panic"

\* every call a handle can make fails, on the cross-thread variant
AllFailAshared ==
    \A h \in handles :
        /\ \A r \in 0..MaxReady :
              AsharedPollNext(lock, Inner, idx[h], r, FALSE, h).kind = "Panic"
        /\ AsharedSizeHint(lock, h).kind = "Panic"
        /\ AsharedIsTerminated(lock, h).kind = "Panic"

\* C13 as stated: for both variants, once the producer has panicked inside a
\* next_item call, every later call on any handle of the container fails.
C13_AsStated == panicked => (AllFailShared /\ AllFailAshared)

\* C13 amended: for the cross-thread variant, once the producer has panicked
\* inside a next_item call, every later next_item, remaining_bounds and
\* is_exhausted call on any handle of the container fails.
C13_PoisonedFails ==
    /\ [](panicked => AllFailAshared)
    /\ [][(panicked /\ last'.op = "next_item") =>
            (lastA'.kind = "Panic" /\ lock' = lock)]_vars

C13_Witness ==
    /\ panicked
    /\ last.op = "next_item" /\ IsItem(last) /\ last.polls = 0
    /\ lastA.kind = "Panic"
    /\ \E h \in handles : idx[h] < Len(values)

\* ------------------------------------------- suspension and wake-ups
\* the producer is polled with the caller's context (cx): it answers Ready
\* when it has something, else Pending, keeping the context of this poll
ReadyBudget == IF upReady THEN MaxReady ELSE 0

InitWakeAny ==
    /\ upReady \in BOOLEAN
    /\ upWaker = 0
    /\ task = [h \in 1..MaxHandles |-> "runnable"]

InitWakeSpec == InitShared /\ hintKind = "exact" /\ InitLock /\ InitThread /\ InitWakeAny

\* the driver polls a task that is new or has been woken: Shared::poll_next
\* with this task's context
WakePoll(h) ==
    /\ h \in handles
    /\ task[h] \in {"runnable", "woken"}
    /\ LET res == GetItem(Inner, idx[h], ReadyBudget) IN
       /\ tag' = res.st.tag
       /\ values' = res.st.values
       /\ upPos' = res.st.upPos
       /\ upDone' = res.st.upDone
       /\ seen' = res.st.seen
       /\ drops' = res.st.drops
       /\ idx' = [idx EXCEPT ![h] = PollNextIdx(@, res.kind, res.val)]
       /\ got' = [got EXCEPT ![h] = IF res.kind = "Ready" /\ IsSome(res.val)
                                    THEN Append(@, Unwrap(res.val)) ELSE @]
       /\ ended' = [ended EXCEPT ![h] = @ \/ (res.kind = "Ready" /\ ~IsSome(res.val))]
       /\ maxReq' = IF idx[h] > maxReq THEN idx[h] ELSE maxReq
       /\ last' = [op |-> "next_item", h |-> h, new |-> h, kind |-> res.kind,
                   val |-> res.val, polls |-> res.polls]
       /\ task' = [task EXCEPT ![h] =
                      IF res.kind = "Pending" THEN "parked"
                      ELSE IF IsSome(res.val) THEN "runnable" ELSE "done"]
       \* stream.poll_next(cx): a Pending answer keeps cx, the caller's context
       /\ upWaker' = IF res.kind = "Pending" THEN h ELSE upWaker
       /\ IF res.polls > 0 /\ res.kind = "Ready" /\ res.st.tag = "Running"
          THEN upReady' \in BOOLEAN
          ELSE upReady' = upReady
    /\ UNCHANGED <<src, hintKind, handles, start>>
    /\ UNCHANGED <<lockVars, threadVars>>

\* the producer gets its next answer ready and wakes the context it keeps
UpstreamReady ==
    /\ tag = "Running"
    /\ ~upReady
    /\ upReady' = TRUE
    /\ upWaker' = 0
    /\ task' = IF upWaker # 0 /\ task[upWaker] = "parked"
               THEN [task EXCEPT ![upWaker] = "woken"] ELSE task
    /\ last' = [op |-> "ready", h |-> upWaker, new |-> upWaker, kind |-> "-",
                val |-> None, polls |-> 0]
    /\ UNCHANGED <<tag, values, src, hintKind, upPos, upDone, seen, handles, idx,
                   start, got, ended, maxReq, drops>>
    /\ UNCHANGED <<lockVars, threadVars>>

NextWake ==
    \/ \E h \in 1..MaxHandles : Clone(h)
    \/ \E h \in 1..MaxHandles : WakePoll(h)
    \/ UpstreamReady

\* the producer eventually has its answer and the driver eventually polls
\* every task that may be polled
SpecWake ==
    /\ InitWakeSpec
    /\ [][NextWake]_vars
    /\ WF_vars(UpstreamReady)
    /\ \A h \in 1..MaxHandles : WF_vars(WakePoll(h))

\* C16: a next_item call of a handle whose cursor is below the cache length
\* returns that cached item at once: never Suspended, no upstream poll, in
\* Running and in Finished, and also while upstream is not ready.
C16_CacheHit ==
    [][(last'.op = "next_item" /\ idx[last'.h] < Len(values)) =>
          /\ IsItem(last')
          /\ last'.val = Some(values[idx[last'.h] + 1])
          /\ last'.polls = 0
          /\ UNCHANGED <<tag, values, upPos, upDone, seen, upReady, upWaker>>]_vars

C16_Witness ==
    /\ last.op = "next_item" /\ IsItem(last) /\ last.polls = 0
    /\ tag = "Running"
    /\ ~upReady
    /\ idx[last.h] < Len(values)

\* C17: every handle whose next_item returned Suspended is eventually woken
\* and polled again once the item it waits for becomes available: a task
\* parked at index i of a producer that has an item i eventually receives it.
C17_EventuallyWoken ==
    \A h \in 1..MaxHandles : \A i \in 0..(MaxLen - 1) :
        (h \in handles /\ task[h] = "parked" /\ idx[h] = i /\ i < Len(src))
            ~> (h \in handles /\ idx[h] > i)

\* ------------------------------------ cross-thread handles on threads
\* Ashared::new, one thread per handle, thread 1 owning the wrapped handle
InitThreads == InitShared /\ hintKind = "exact" /\ InitLock /\ InitThread /\ InitWake

\* Ashared::clone, made by a thread that is not inside poll_next; the clone
\* is moved to a new thread, of which there are at most n
ThreadClone(t, max) ==
    /\ t \in handles
    /\ pc[t] = "idle"
    /\ Cardinality(handles) < max
    /\ LET n == CHOOSE k \in 1..max : k \notin handles IN
       /\ handles' = handles \cup {n}
       /\ idx' = (n :> CloneIdx(t)) @@ idx
       /\ start' = (n :> CloneIdx(t)) @@ start
       /\ got' = (n :> <<>>) @@ got
       /\ ended' = (n :> FALSE) @@ ended
       /\ last' = [op |-> "clone", h |-> t, new |-> n, kind |-> "-", val |-> None, polls |-> 0]
    /\ UNCHANGED <<tag, values, src, hintKind, upPos, upDone, seen, maxReq, drops>>
    /\ UNCHANGED <<lockVars, threadVars, wakeVars>>

\* the thread drives its handle to completion: it enters poll_next until it
\* has received None, and asks for the write lock
ThreadCall(t) ==
    /\ t \in handles
    /\ pc[t] = "idle"
    /\ ~ended[t]
    /\ pc' = [pc EXCEPT ![t] = "acquire"]
    /\ waited' = [waited EXCEPT ![t] = (lock.writer # 0 /\ idx[t] >= Len(values))]
    /\ UNCHANGED <<tag, values, src, hintKind, upPos, upDone, seen, handles, idx,
                   start, got, ended, maxReq, last, drops>>
    /\ UNCHANGED <<lockVars, wakeVars>>

\* inner.write().unwrap() returns: the thread holds the write guard
ThreadAcquire(t) ==
    /\ t \in handles
    /\ pc[t] = "acquire"
    /\ WriteAvailable(lock)
    /\ IF WriteUnwrapFails(lock)
       THEN pc' = [pc EXCEPT ![t] = "panicked"] /\ lock' = lock
       ELSE pc' = [pc EXCEPT ![t] = "locked"] /\ lock' = WriteAcquire(lock, t)
    /\ UNCHANGED <<tag, values, src, hintKind, upPos, upDone, seen, handles, idx,
                   start, got, ended, maxReq, last, drops>>
    /\ UNCHANGED <<lastA, panicked, waited, wakeVars>>

\* get_item under the write guard, the guard's drop, and the cursor update;
\* R is the set of readiness budgets the producer may show
ThreadGetItem(t, R) ==
    /\ t \in handles
    /\ pc[t] = "locked"
    /\ \E r \in R :
          LET res == GetItem(Inner, idx[t], r) IN
          /\ tag' = res.st.tag
          /\ values' = res.st.values
          /\ upPos' = res.st.upPos
          /\ upDone' = res.st.upDone
          /\ seen' = res.st.seen
          /\ drops' = res.st.drops
          /\ idx' = [idx EXCEPT ![t] = PollNextIdx(@, res.kind, res.val)]
          /\ got' = [got EXCEPT ![t] = IF res.kind = "Ready" /\ IsSome(res.val)
                                       THEN Append(@, Unwrap(res.val)) ELSE @]
          /\ ended' = [ended EXCEPT ![t] = @ \/ (res.kind = "Ready" /\ ~IsSome(res.val))]
          /\ maxReq' = IF idx[t] > maxReq THEN idx[t] ELSE maxReq
          /\ last' = [op |-> "next_item", h |-> t, new |-> t, kind |-> res.kind,
                      val |-> res.val, polls |-> res.polls]
    /\ lock' = GuardDrop(lock, FALSE)
    /\ pc' = [pc EXCEPT ![t] = "idle"]
    /\ UNCHANGED <<src, hintKind, handles, start>>
    /\ UNCHANGED <<lastA, panicked, waited, wakeVars>>

\* any producer: each poll may find it ready or not
NextThreads ==
    \/ \E t \in 1..MaxThreads : ThreadClone(t, MaxThreads)
    \/ \E t \in 1..MaxThreads : ThreadCall(t)
    \/ \E t \in 1..MaxThreads : ThreadAcquire(t)
    \/ \E t \in 1..MaxThreads : ThreadGetItem(t, 0..MaxReady)

SpecThreads == InitThreads /\ [][NextThreads]_vars

\* the cross-thread example: stream::iter over three items, always ready,
\* and three handles
InitIter == InitThreads /\ src = Source(ScenarioLen)

NextIter ==
    \/ \E t \in 1..ScenarioThreads : ThreadClone(t, ScenarioThreads)
    \/ \E t \in 1..ScenarioThreads : ThreadCall(t)
    \/ \E t \in 1..ScenarioThreads : ThreadAcquire(t)
    \/ \E t \in 1..ScenarioThreads : ThreadGetItem(t, {MaxReady})

\* the next step of thread t inside block_on(collect)
ThreadStep(t) ==
    \/ ThreadCall(t)
    \/ ThreadAcquire(t)
    \/ ThreadGetItem(t, {MaxReady})

\* every thread keeps running
SpecIter ==
    /\ InitIter
    /\ [][NextIter]_vars
    /\ \A t \in 1..ScenarioThreads : WF_vars(ThreadStep(t))

\* C11: clones of a wrapped producer, each driven to completion on its own
\* thread: under every interleaving every thread finishes, none panics, each
\* collects the whole sequence from its cursor on (all of it for the three
\* clones made before any read), and the producer's log ends as the source,
\* one entry per item in the original order.
C11_ThreadsFinish ==
    /\ [](\A t \in handles :
            /\ pc[t] # "panicked"
            /\ ended[t] => (/\ got[t] = SubSeq(src, start[t] + 1, Len(src))
                            /\ seen = src))
    /\ <>[](\A t \in handles : ended[t] /\ pc[t] = "idle")

C11_Witness ==
    /\ Len(src) = ScenarioLen
    /\ Cardinality(handles) = ScenarioThreads
    /\ \A t \in handles : start[t] = 0 /\ ended[t] /\ got[t] = src /\ pc[t] = "idle"
    /\ seen = src /\ Len(seen) = ScenarioLen

\* C18: next_item calls of different handles exclude each other over the
\* cache state: at most one thread is inside get_item; and a call made
\* behind a writer re-checks the cache once it has the lock: when the index
\* it asked for has been cached meanwhile it returns it without polling.
C18_Serialized ==
    /\ [](/\ Cardinality({t \in handles : pc[t] = "locked"}) <= 1
          /\ \A t \in handles : pc[t] = "locked" <=> lock.writer = t)
    /\ [][\A t \in handles :
            (pc[t] = "locked" /\ pc'[t] = "idle" /\ idx[t] < Len(values)) =>
                (IsItem(last') /\ last'.h = t /\ last'.polls = 0 /\ seen' = seen)]_vars

C18_Witness ==
    /\ last.op = "next_item"
    /\ waited[last.h]
    /\ IsItem(last) /\ last.polls = 0
    /\ \E t \in handles : pc[t] = "acquire"

\* C19: under all interleavings of clone and next_item across threads every
\* cursor is at most the cache length, so values.len() - idx does not
\* underflow.
C19_CursorWithinCache ==
    \A h \in handles : idx[h] <= Len(values) /\ UpstreamCached(values, idx[h]) >= 0

C19_Witness ==
    \E t, u \in handles :
        /\ pc[t] = "locked"
        /\ idx[u] = Len(values) /\ Len(values) >= 2 /\ pc[u] = "acquire"
        /\ idx[t] < Len(values)

====
